---- MODULE Spec2Model ----
(***************************************************************************)
(* Model of the hybrid retrieval engine of kg-ai-starter: the kg_nodes /   *)
(* kg_edges tables and their constraints (schema.sql), the SQL helper      *)
(* functions get_connected_nodes and find_shortest_path, and the tools     *)
(* that the chat route (app/api/chat/route.ts) offers per mode, the        *)
(* route's POST handler (validation, the steps of streamText, the parts of *)
(* its stream), generateEmbedding, the SQL functions                      *)
(* search_nodes_semantic and search_chunks_semantic, the graph route       *)
(* (app/api/graph/route.ts) and the page state it and updateGraph feed     *)
(* (app/page.tsx, components/chat-interface.tsx).                          *)
(*                                                                         *)
(* Rows keep the columns the modelled code reads: a kg_nodes row is        *)
(* [id, label], a kg_edges row is [source_id, target_id, relationship,     *)
(* weight].  kg_edges is a bag of rows: the table itself can hold two rows *)
(* that differ only in their generated id, and it is the UNIQUE constraint *)
(* that keeps that from happening.  FLOAT weights are integers here.       *)
(***************************************************************************)
EXTENDS Integers, Sequences, FiniteSets, Bags, TLC

\* ------------------------------------------------------------------ bounds
NumNodes == 3        \* node ids are 1..NumNodes (uuid_generate_v4 stands for a fresh id)
MaxEdges == 3        \* rows of kg_edges
MaxDepth == 3        \* largest max_depth a call is made with
MaxCreated == 2      \* rows createNode / createEdge add to a table in one behaviour
NumWorkers == 2      \* chat requests in flight at once

NodeIds == 1..NumNodes
Labels == {"A", "B"}
Relationships == {"x", "y"}
Depths == 0..MaxDepth
Workers == 1..NumWorkers
None == 0            \* no row / NULL

VARIABLES
    kg_nodes,        \* set of rows [id, label]
    kg_edges,        \* bag of rows [source_id, target_id, relationship, weight]
    next_node_id,    \* the next id uuid_generate_v4 hands to kg_nodes
    mode,            \* mode[w]: the mode of worker w's request
    exec,            \* exec[w]: the tool invocation worker w is running
    probe,           \* the last call of a SQL helper function
    node_rows,       \* the rows the last get_connected_nodes call returned
    path_rows,       \* the rows the last find_shortest_path call returned
    request,         \* request[w]: the chat request worker w's POST is handling
    embeddings,      \* the embedding column of kg_nodes and of document_chunks, by row id
    match_rows,      \* the rows the last similarity search returned, in order
    get,             \* the GET /api/graph the page's fetch is waiting for
    message,         \* the updateGraph invocation onFinish finds in the chat message
    graphData        \* the page's graphData state, handed to GraphVisualization

vars == <<kg_nodes, kg_edges, next_node_id, mode, exec, probe, node_rows, path_rows,
          request, embeddings, match_rows, get, message, graphData>>

\* ------------------------------------------------------------------ tables
node_ids(N) == {n.id : n \in N}

edge_rows(E) == BagToSet(E)

InPath(id, path) == \E i \in 1..Len(path) : path[i] = id          \* id = ANY(path)

\* ------------------------------------------------ get_connected_nodes (SQL)
\* node_graph_step with the join following an edge from its source only.
node_graph_step_directed(N, E, W, max_depth) ==
    { [node_id |-> t[3].id, depth |-> t[1].depth + 1, path |-> Append(t[1].path, t[3].id)] :
        t \in { t \in W \X edge_rows(E) \X N :
                  /\ t[2].source_id = t[1].node_id /\ t[2].target_id = t[3].id
                  /\ t[1].depth < max_depth
                  /\ ~ InPath(t[3].id, t[1].path) } }

\* The recursive term of node_graph, applied to the working table W.
node_graph_step(N, E, W, max_depth) ==
    { [node_id |-> t[3].id, depth |-> t[1].depth + 1, path |-> Append(t[1].path, t[3].id)] :
        t \in { t \in W \X edge_rows(E) \X N :
                  /\ (t[1].node_id = t[2].source_id \/ t[1].node_id = t[2].target_id)
                  /\ \/ (t[2].source_id = t[1].node_id /\ t[2].target_id = t[3].id)
                     \/ (t[2].target_id = t[1].node_id /\ t[2].source_id = t[3].id)
                  /\ t[1].depth < max_depth
                  /\ ~ InPath(t[3].id, t[1].path) } }

RECURSIVE node_graph_from(_, _, _, _)
node_graph_from(N, E, W, max_depth) ==
    IF W = {} THEN {}
    ELSE W \cup node_graph_from(N, E, node_graph_step(N, E, W, max_depth), max_depth)

\* WITH RECURSIVE node_graph: the base case (the start node's row) and its closure.
node_graph(N, E, node_id, max_depth) ==
    node_graph_from(N, E,
        { [node_id |-> n.id, depth |-> 0, path |-> <<n.id>>] : n \in {n \in N : n.id = node_id} },
        max_depth)

\* distinct_on_node_id without the ORDER BY node_id, depth: any row may be kept.
distinct_on_unordered(G) == G

\* The rows DISTINCT ON (node_id) ... ORDER BY node_id, depth may keep: for each
\* node_id a row of the smallest depth (which of several such rows is kept is
\* left open by SQL).
distinct_on_node_id(G) ==
    { r \in G : \A s \in G : s.node_id = r.node_id => r.depth <= s.depth }

\* The possible results of get_connected_nodes: one kept row per node_id.
get_connected_nodes(N, E, node_id, max_depth) ==
    LET K == distinct_on_node_id(node_graph(N, E, node_id, max_depth))
    IN  { R \in SUBSET K :
            \A r \in K : Cardinality({s \in R : s.node_id = r.node_id}) = 1 }

\* ------------------------------------------------- find_shortest_path (SQL)
\* paths_step with the join following an edge from either endpoint.
paths_step_undirected(E, W, max_depth) ==
    { [path |-> Append(t[1].path, t[3]),
       total_weight |-> t[1].total_weight + t[2].weight,
       current_node |-> t[3]] :
        t \in { t \in W \X edge_rows(E) \X NodeIds :
                  /\ \/ (t[2].source_id = t[1].current_node /\ t[2].target_id = t[3])
                     \/ (t[2].target_id = t[1].current_node /\ t[2].source_id = t[3])
                  /\ ~ InPath(t[3], t[1].path)
                  /\ Len(t[1].path) < max_depth } }

\* The recursive term of paths, applied to the working table W.
paths_step(E, W, max_depth) ==
    { [path |-> Append(t[1].path, t[2].target_id),
       total_weight |-> t[1].total_weight + t[2].weight,
       current_node |-> t[2].target_id] :
        t \in { t \in W \X edge_rows(E) :
                  /\ t[2].source_id = t[1].current_node
                  /\ ~ InPath(t[2].target_id, t[1].path)
                  /\ Len(t[1].path) < max_depth } }

RECURSIVE paths_from(_, _, _)
paths_from(E, W, max_depth) ==
    IF W = {} THEN {}
    ELSE W \cup paths_from(E, paths_step(E, W, max_depth), max_depth)

\* WITH RECURSIVE paths.  (UNION ALL keeps duplicate rows; a duplicate changes
\* nothing in what ORDER BY ... LIMIT 1 can return, so the rows are a set.)
paths(N, E, start_id, max_depth) ==
    paths_from(E,
        IF start_id \in node_ids(N)
        THEN { [path |-> <<start_id>>, total_weight |-> 0, current_node |-> start_id] }
        ELSE {},
        max_depth)

\* The possible results of find_shortest_path: no row, or one row of the least
\* total_weight among the paths that end in end_id (ties are left open by SQL).
find_shortest_path(N, E, start_id, end_id, max_depth) ==
    LET P == { p \in paths(N, E, start_id, max_depth) : p.current_node = end_id }
        M == { p \in P : \A q \in P : p.total_weight <= q.total_weight }
    IN  IF P = {} THEN { {} }
        ELSE { { [path |-> p.path, total_weight |-> p.total_weight] } : p \in M }

\* ------------------------------------------------------------ initial states
NoProbe == [fn |-> "none", start_id |-> None, end_id |-> None, max_depth |-> 0]
\* A worker between two tool invocations: the tool it ran last and what that returned.
Ready(tool, result) ==
    [tool |-> tool, pc |-> "ready", targetLabel |-> "", relationship |-> "",
     nodes |-> None, sourceNodes |-> None, targetNodes |-> None, result |-> result,
     embedding |-> [settled |-> "none", dim |-> 0, mock |-> FALSE]]

Idle == Ready("none", "none")

\* A POST that streams for a valid request: the specifications of the store
\* and of the tools look at the tool invocations only.
Streaming ==
    [pc |-> "streaming", messages |-> "[m]", json |-> "object", status |-> 200,
     supabase |-> TRUE, step |-> 0, pending |-> 0, threw |-> FALSE, calls |-> 0,
     part |-> [type |-> "none", toolName |-> "none", error |-> FALSE],
     finishReason |-> "none"]

\* No chat request is followed, no embedding is stored, no search was made.
NoChat ==
    /\ request = [w \in Workers |-> Streaming]
    /\ embeddings = [kg_nodes |-> <<>>, document_chunks |-> <<>>]
    /\ match_rows = <<>>

\* GET /api/graph before its first query.
NoGet == [pc |-> "idle", nodes |-> {}, edges |-> {}, status |-> 0]

\* A chat message without an updateGraph invocation.
NoMessage == [outcome |-> "none", keys |-> {}, nodes |-> {}, edges |-> {}]

\* useState({ nodes: [], edges: [] })
useState_graphData == [keys |-> {"nodes", "edges"}, nodes |-> {}, edges |-> {}]

\* No page is open.
NoPage ==
    /\ get = NoGet
    /\ message = NoMessage
    /\ graphData = useState_graphData

\* The weight the ingested rows of a relationship carry ("x" rows keep the
\* column's DEFAULT 1.0).
RelWeight(r) == IF r = "x" THEN 1 ELSE 5

EdgeRows(ids) ==
    { [source_id |-> a, target_id |-> b, relationship |-> r, weight |-> RelWeight(r)] :
        a \in ids, b \in ids, r \in Relationships }

SameTriple(e, f) ==
    e.source_id = f.source_id /\ e.target_id = f.target_id /\ e.relationship = f.relationship

\* The sets of at most k rows drawn from R.
RECURSIVE RowSets(_, _)
RowSets(R, k) ==
    IF k = 0 THEN { {} }
    ELSE LET S == RowSets(R, k - 1)
         IN  S \cup { s \cup {e} : s \in S, e \in R }

\* The stores the SQL helpers are called on: any nodes, and any rows of
\* kg_edges that satisfy the table's constraints (both endpoints exist, the
\* triple is unique).
InitTraversal ==
    /\ \E ids \in SUBSET NodeIds :
         /\ kg_nodes = { [id |-> i, label |-> "A"] : i \in ids }
         /\ \E es \in RowSets(EdgeRows(ids), MaxEdges) :
              /\ \A e, f \in es : SameTriple(e, f) => e = f
              /\ kg_edges = SetToBag(es)
    /\ next_node_id = NumNodes + 1
    /\ mode = [w \in Workers |-> "graph"]
    /\ exec = [w \in Workers |-> Idle]
    /\ probe = NoProbe
    /\ node_rows = {}
    /\ path_rows = {}
    /\ NoChat
    /\ NoPage

\* ------------------------------------------------- calls of the SQL helpers
CallConnected(node_id, max_depth) ==
    /\ probe.fn = "none"
    /\ probe' = [fn |-> "get_connected_nodes", start_id |-> node_id, end_id |-> None,
                 max_depth |-> max_depth]
    /\ node_rows' \in get_connected_nodes(kg_nodes, kg_edges, node_id, max_depth)
    /\ path_rows' = {}
    /\ UNCHANGED <<kg_nodes, kg_edges, next_node_id, mode, exec, request, embeddings, match_rows,
                   get, message, graphData>>

CallShortestPath(start_id, end_id, max_depth) ==
    /\ probe.fn = "none"
    /\ probe' = [fn |-> "find_shortest_path", start_id |-> start_id, end_id |-> end_id,
                 max_depth |-> max_depth]
    /\ path_rows' \in find_shortest_path(kg_nodes, kg_edges, start_id, end_id, max_depth)
    /\ node_rows' = {}
    /\ UNCHANGED <<kg_nodes, kg_edges, next_node_id, mode, exec, request, embeddings, match_rows,
                   get, message, graphData>>

NextConnected ==
    \E n \in NodeIds, d \in Depths : CallConnected(n, d)

NextShortest ==
    \E s \in NodeIds, t \in NodeIds, d \in Depths : CallShortestPath(s, t, d)

SpecConnected == InitTraversal /\ [][NextConnected]_vars

SpecShortest == InitTraversal /\ [][NextShortest]_vars


\* ------------------------------------------------- kg_nodes, kg_edges (SQL)
\* kg_edges.source_id / target_id REFERENCES kg_nodes(id), always true.
references_unchecked(N, row) == TRUE

\* kg_edges.source_id / target_id REFERENCES kg_nodes(id).
references_kg_nodes(N, row) ==
    row.source_id \in node_ids(N) /\ row.target_id \in node_ids(N)

\* The UNIQUE constraint of kg_edges, always true.
unique_unchecked(E, row) == TRUE

\* UNIQUE(source_id, target_id, relationship).
unique_triple(E, row) == \A f \in edge_rows(E) : ~ SameTriple(f, row)

\* INSERT INTO kg_edges as an upsert: a row whose triple exists is taken
\* without an error.
insert_kg_edges_upsert(N, E, row) ==
    IF ~ references_kg_nodes(N, row) THEN [error |-> "foreign_key_violation", kg_edges |-> E]
    ELSE IF ~ unique_triple(E, row) THEN [error |-> "none", kg_edges |-> E]
    ELSE [error |-> "none", kg_edges |-> E (+) SetToBag({row})]

\* INSERT INTO kg_edges: the error the statement ends with, and the table after it.
insert_kg_edges(N, E, row) ==
    IF ~ references_kg_nodes(N, row) THEN [error |-> "foreign_key_violation", kg_edges |-> E]
    ELSE IF ~ unique_triple(E, row) THEN [error |-> "unique_violation", kg_edges |-> E]
    ELSE [error |-> "none", kg_edges |-> E (+) SetToBag({row})]

\* ON DELETE CASCADE with the cascade on target_id left out.
on_delete_cascade_source_only(E, id) ==
    [e \in { e \in DOMAIN E : e.source_id # id } |-> E[e]]

\* ON DELETE CASCADE: the rows of kg_edges left when node id is deleted.
on_delete_cascade(E, id) ==
    [e \in { e \in DOMAIN E : e.source_id # id /\ e.target_id # id } |-> E[e]]

\* .from('kg_nodes').select().eq('label', label).limit(1): the ids the query may
\* return (no ORDER BY: any one matching row), None when no row matches.
select_by_label(N, label) ==
    IF \E n \in N : n.label = label THEN { n.id : n \in { n \in N : n.label = label } }
    ELSE { None }

\* ------------------------------------------------------- chat route (tools)
Modes == {"vector", "graph", "hybrid"}

\* The tools object with the graph tools spread in for every mode.
tools_ungated(m) ==
    {"searchDocuments", "traverseGraph", "createNode", "createEdge", "updateGraph"}
        \cup (IF m = "hybrid" THEN {"searchNodesSemanticaly"} ELSE {})

\* The tools object with createNode spread in with the vector tools.
tools_vector_createNode(m) ==
    (IF m = "vector" \/ m = "hybrid" THEN {"searchDocuments", "createNode"} ELSE {})
        \cup (IF m = "graph" \/ m = "hybrid"
              THEN {"traverseGraph", "createNode", "createEdge", "updateGraph"} ELSE {})
        \cup (IF m = "hybrid" THEN {"searchNodesSemanticaly"} ELSE {})

\* The tools object POST builds for a mode.
tools(m) ==
    (IF m = "vector" \/ m = "hybrid" THEN {"searchDocuments"} ELSE {})
        \cup (IF m = "graph" \/ m = "hybrid"
              THEN {"traverseGraph", "createNode", "createEdge", "updateGraph"} ELSE {})
        \cup (IF m = "hybrid" THEN {"searchNodesSemanticaly"} ELSE {})

Offered(w, tool) == exec[w].pc = "ready" /\ tool \in tools(mode[w])

Init ==
    /\ kg_nodes = {}
    /\ kg_edges = EmptyBag
    /\ next_node_id = 1
    /\ mode \in [Workers -> Modes]
    /\ exec = [w \in Workers |-> Idle]
    /\ probe = NoProbe
    /\ node_rows = {}
    /\ path_rows = {}
    /\ NoChat
    /\ NoPage

Frame == UNCHANGED <<mode, probe, node_rows, path_rows, request, embeddings, match_rows,
                     get, message, graphData>>

\* createNode.execute: one INSERT INTO kg_nodes.
createNode(w, label) ==
    /\ Offered(w, "createNode")
    /\ next_node_id <= MaxCreated
    /\ kg_nodes' = kg_nodes \cup { [id |-> next_node_id, label |-> label] }
    /\ next_node_id' = next_node_id + 1
    /\ exec' = [exec EXCEPT ![w] = Ready("createNode", "ok")]
    /\ UNCHANGED kg_edges
    /\ Frame

\* createEdge.execute up to its first await: the lookup of the source label.
createEdge_sourceNodes(w, sourceLabel, targetLabel, relationship) ==
    /\ Offered(w, "createEdge")
    /\ \E id \in select_by_label(kg_nodes, sourceLabel) :
         exec' = [exec EXCEPT ![w] =
                    [Ready("createEdge", "none") EXCEPT
                        !.pc = "targetNodes", !.targetLabel = targetLabel,
                        !.relationship = relationship, !.sourceNodes = id]]
    /\ UNCHANGED <<kg_nodes, kg_edges, next_node_id>>
    /\ Frame

\* createEdge.execute: the lookup of the target label, and the check of both.
createEdge_targetNodes(w) ==
    /\ exec[w].tool = "createEdge" /\ exec[w].pc = "targetNodes"
    /\ \E id \in select_by_label(kg_nodes, exec[w].targetLabel) :
         exec' = [exec EXCEPT ![w] =
                    IF exec[w].sourceNodes = None \/ id = None
                    THEN Ready("createEdge", "One or both nodes not found")
                    ELSE [exec[w] EXCEPT !.pc = "insert", !.targetLabel = "", !.targetNodes = id]]
    /\ UNCHANGED <<kg_nodes, kg_edges, next_node_id>>
    /\ Frame

\* createEdge.execute: the INSERT INTO kg_edges (weight takes its DEFAULT 1.0),
\* its error thrown, its row returned.  (The table grows to MaxCreated rows.)
createEdge_insert(w) ==
    /\ exec[w].tool = "createEdge" /\ exec[w].pc = "insert"
    /\ LET row == [source_id |-> exec[w].sourceNodes, target_id |-> exec[w].targetNodes,
                   relationship |-> exec[w].relationship, weight |-> 1]
           done == insert_kg_edges(kg_nodes, kg_edges, row)
       IN  /\ BagCardinality(done.kg_edges) <= MaxCreated
           /\ kg_edges' = done.kg_edges
           /\ exec' = [exec EXCEPT ![w] =
                         Ready("createEdge", IF done.error = "none" THEN "ok" ELSE done.error)]
    /\ UNCHANGED <<kg_nodes, next_node_id>>
    /\ Frame

\* DELETE FROM kg_nodes WHERE id = ...: the administrative deletion of a node.
deleteNode(id) ==
    /\ id \in node_ids(kg_nodes)
    /\ kg_nodes' = { n \in kg_nodes : n.id # id }
    /\ kg_edges' = on_delete_cascade(kg_edges, id)
    /\ UNCHANGED <<next_node_id, exec>>
    /\ Frame

\* traverseGraph.execute up to its first await: the lookup of the start label.
traverseGraph_nodes(w, nodeLabel) ==
    /\ Offered(w, "traverseGraph")
    /\ \E id \in select_by_label(kg_nodes, nodeLabel) :
         exec' = [exec EXCEPT ![w] =
                    IF id = None THEN Ready("traverseGraph", "Node not found")
                    ELSE [Ready("traverseGraph", "none") EXCEPT !.pc = "rpc", !.nodes = id]]
    /\ UNCHANGED <<kg_nodes, kg_edges, next_node_id>>
    /\ Frame

\* traverseGraph.execute: the rpc of get_connected_nodes; its rows are returned
\* with the start node.
traverseGraph_rpc(w) ==
    /\ exec[w].tool = "traverseGraph" /\ exec[w].pc = "rpc"
    /\ exec' = [exec EXCEPT ![w] = Ready("traverseGraph", "ok")]
    /\ UNCHANGED <<kg_nodes, kg_edges, next_node_id>>
    /\ Frame

\* The dimension of the embedding columns, vector(1536), of the vectors of
\* text-embedding-3-small, and of the mock embeddings, Array(1536).
VectorDim == 1536
ModelDim == 1536
MockDim == 1536

\* How the call of the embeddings endpoint ends.
EmbeddingOutcomes == {"ok", "error", "timeout"}

\* generateEmbedding without the catch: the error of the call is rethrown.
generateEmbedding_rethrow(outcome) ==
    IF outcome = "ok" THEN [settled |-> "fulfilled", dim |-> ModelDim, mock |-> FALSE]
    ELSE [settled |-> "rejected", dim |-> 0, mock |-> FALSE]

\* generateEmbedding: the embedding of the response, or, when the call throws
\* (an error, a timeout), Array(1536).fill(0).map(() => Math.random()).
generateEmbedding(outcome) ==
    IF outcome = "ok" THEN [settled |-> "fulfilled", dim |-> ModelDim, mock |-> FALSE]
    ELSE [settled |-> "fulfilled", dim |-> MockDim, mock |-> TRUE]

\* What a search tool ends with for the embedding it awaited: a rejection
\* is thrown on; a query_embedding of another dimension than the column's is
\* the rpc's error, thrown; otherwise the rpc's rows are returned.
search_result(embedding) ==
    IF embedding.settled = "rejected" THEN "embedding failed"
    ELSE IF embedding.dim # VectorDim THEN "different vector dimensions"
    ELSE "ok"

\* searchDocuments.execute: generateEmbedding, then the rpc of
\* search_chunks_semantic, read-only on the graph tables.
searchDocuments(w) ==
    /\ Offered(w, "searchDocuments")
    /\ \E outcome \in EmbeddingOutcomes :
         LET embedding == generateEmbedding(outcome)
         IN  exec' = [exec EXCEPT ![w] =
                        [Ready("searchDocuments", search_result(embedding))
                            EXCEPT !.embedding = embedding]]
    /\ UNCHANGED <<kg_nodes, kg_edges, next_node_id>>
    /\ Frame

\* searchNodesSemanticaly.execute: generateEmbedding, then the rpc of
\* search_nodes_semantic, read-only on the graph tables.
searchNodesSemanticaly(w) ==
    /\ Offered(w, "searchNodesSemanticaly")
    /\ \E outcome \in EmbeddingOutcomes :
         LET embedding == generateEmbedding(outcome)
         IN  exec' = [exec EXCEPT ![w] =
                        [Ready("searchNodesSemanticaly", search_result(embedding))
                            EXCEPT !.embedding = embedding]]
    /\ UNCHANGED <<kg_nodes, kg_edges, next_node_id>>
    /\ Frame

RefreshLimit == 50

\* .limit(n) on a select without ORDER BY: any n of the rows, all of them when
\* there are no more than n.
RECURSIVE limit_unordered(_, _)
limit_unordered(S, n) ==
    IF Cardinality(S) <= n THEN {S}
    ELSE UNION { limit_unordered(S \ {a}, n) : a \in S }

\* The edges the refresh collects: node.source_edges of every returned node.
source_edges(S, E) == { e \in edge_rows(E) : e.source_id \in node_ids(S) }

\* What updateGraph's execute returns, or the error it throws.  The schema
\* defines no function get_node_connections, so the rpc of the nodeId branch
\* answers with an error.
updateGraph_execute(N, E, operation, nodeId) ==
    IF operation = "refresh"
    THEN IF nodeId # None
         THEN { [outcome |-> "rpc error", keys |-> {}, nodes |-> {}, edges |-> {}] }
         ELSE { [outcome |-> "ok", keys |-> {"nodes", "edges", "operation"},
                 nodes |-> node_ids(S), edges |-> source_edges(S, E)] :
                    S \in limit_unordered(N, RefreshLimit) }
    ELSE { [outcome |-> "ok", keys |-> {"operation", "message"}, nodes |-> {}, edges |-> {}] }

\* updateGraph.execute with 'add' inserting a node of its own.
updateGraph_add_inserts(w, operation, nodeId) ==
    /\ Offered(w, "updateGraph")
    /\ exec' = [exec EXCEPT ![w] = Ready("updateGraph", "ok")]
    /\ kg_nodes' = IF operation = "add" /\ next_node_id <= MaxCreated
                   THEN kg_nodes \cup { [id |-> next_node_id, label |-> "A"] }
                   ELSE kg_nodes
    /\ next_node_id' = IF operation = "add" /\ next_node_id <= MaxCreated
                       THEN next_node_id + 1 ELSE next_node_id
    /\ UNCHANGED kg_edges
    /\ Frame

\* updateGraph.execute: 'add' returns a message; 'refresh' selects from
\* kg_nodes, or calls the rpc get_node_connections when a nodeId is given.
updateGraph(w, operation, nodeId) ==
    /\ Offered(w, "updateGraph")
    /\ \E r \in updateGraph_execute(kg_nodes, kg_edges, operation, nodeId) :
         exec' = [exec EXCEPT ![w] = Ready("updateGraph", r.outcome)]
    /\ UNCHANGED <<kg_nodes, kg_edges, next_node_id>>
    /\ Frame

Next ==
    \/ \E w \in Workers, l \in Labels : createNode(w, l)
    \/ \E w \in Workers, sl \in Labels, tl \in Labels, r \in Relationships :
         createEdge_sourceNodes(w, sl, tl, r)
    \/ \E w \in Workers : createEdge_targetNodes(w)
    \/ \E w \in Workers : createEdge_insert(w)
    \/ \E id \in NodeIds : deleteNode(id)
    \/ \E w \in Workers, l \in Labels : traverseGraph_nodes(w, l)
    \/ \E w \in Workers : traverseGraph_rpc(w)
    \/ \E w \in Workers : searchDocuments(w)
    \/ \E w \in Workers : searchNodesSemanticaly(w)
    \/ \E w \in Workers, op \in {"add", "refresh"}, id \in {None} \cup NodeIds :
         updateGraph(w, op, id)

Spec == Init /\ [][Next]_vars

\* ------------------------------------------- two requests creating one edge
\* The stores the two requests start on: nodes created so far, no edge yet.
InitRace ==
    /\ \E k \in 0..MaxCreated :
         /\ kg_nodes \in { { [id |-> i, label |-> f[i]] : i \in 1..k } : f \in [1..k -> Labels] }
         /\ next_node_id = k + 1
    /\ kg_edges = EmptyBag
    /\ mode \in [Workers -> {"graph", "hybrid"}]
    /\ exec = [w \in Workers |-> Idle]
    /\ probe = NoProbe
    /\ node_rows = {}
    /\ path_rows = {}
    /\ NoChat
    /\ NoPage

\* Each request invokes createEdge once; the steps of the invocations interleave.
NextRace ==
    \/ \E w \in Workers, sl \in Labels, tl \in Labels, r \in Relationships :
         exec[w].tool = "none" /\ createEdge_sourceNodes(w, sl, tl, r)
    \/ \E w \in Workers : createEdge_targetNodes(w)
    \/ \E w \in Workers : createEdge_insert(w)

SpecRace == InitRace /\ [][NextRace]_vars

\* -------------------------------------------------------- chat route (POST)
maxSteps == 5        \* streamText({ ..., maxSteps: 5 })
MaxCalls == 2        \* tool calls the model asks for in one step

\* The JSON values a body carries as messages and as mode, and what req.json()
\* makes of the body: an object, null, or a rejection (malformed JSON).
MessageValues == {"undefined", "null", "string", "[]", "[m]"}
ModeValues == {"undefined", "other"} \cup Modes
JsonValues == {"object", "null", "malformed"}

truthy(v) == v \notin {"undefined", "null"}         \* !v is false
isArray(v) == v \in {"[]", "[m]"}                   \* Array.isArray(v)

\* createServerSideClient() of lib/supabase: a client is made, a store that is
\* misconfigured or away shows in the calls made through it.
createServerSideClient == TRUE

\* POST with the store client created before the body is validated.
POST_client_first(json, messages, m) ==
    IF json # "object" THEN [status |-> 500, supabase |-> FALSE]
    ELSE IF ~ truthy(messages) \/ ~ isArray(messages) THEN [status |-> 400, supabase |-> TRUE]
    ELSE IF ~ truthy(m) \/ m \notin Modes THEN [status |-> 400, supabase |-> TRUE]
    ELSE [status |-> 200, supabase |-> TRUE]

\* POST up to the Response it returns: a rejection of req.json() and the
\* destructuring of null land in the catch (500); the two checks return 400;
\* otherwise the client is created, streamText is started and its stream is
\* returned (200).  createServerSideClient returns a client.
POST_entry(json, messages, m) ==
    IF json # "object" THEN [status |-> 500, supabase |-> FALSE]
    ELSE IF ~ truthy(messages) \/ ~ isArray(messages) THEN [status |-> 400, supabase |-> FALSE]
    ELSE IF ~ truthy(m) \/ m \notin Modes THEN [status |-> 400, supabase |-> FALSE]
    ELSE [status |-> 200, supabase |-> createServerSideClient]

\* The errors the store client hands back in { data, error }.
PostgrestErrors ==
    {"unique_violation", "foreign_key_violation", "rpc error", "store unavailable",
     "different vector dimensions"}

\* What an execute throws: the store's error, or what generateEmbedding threw.
Thrown == PostgrestErrors \cup {"embedding failed"}

\* (async (...args) => { try { return await fn(...args) } catch ... }): a
\* rejection becomes the object { error: true, message: `Failed to execute ${toolName}: ...` }.
createSafeExecute(p, toolName) ==
    IF p.settled = "rejected"
    THEN [settled |-> "fulfilled", error |-> TRUE, message |-> p.message, toolName |-> toolName]
    ELSE p

\* execute with every tool wrapped in createSafeExecute.
execute_all_safe(tool, result) ==
    createSafeExecute(
        IF result \in Thrown
        THEN [settled |-> "rejected", error |-> TRUE, message |-> result, toolName |-> ""]
        ELSE [settled |-> "fulfilled", error |-> result # "ok", message |-> result, toolName |-> ""],
        tool)

\* How the promise of tools[tool].execute settles when the tool ends with
\* result: `if (error) throw error` rejects with the store's error, the
\* objects { error: '... not found' } and the data are returned; only
\* searchDocuments is wrapped in createSafeExecute.
execute(tool, result) ==
    LET p == IF result \in Thrown
             THEN [settled |-> "rejected", error |-> TRUE, message |-> result, toolName |-> ""]
             ELSE [settled |-> "fulfilled", error |-> result # "ok", message |-> result, toolName |-> ""]
    IN  IF tool = "searchDocuments" THEN createSafeExecute(p, tool) ELSE p

\* A request as POST receives it.
Received(json, messages) ==
    [pc |-> "received", messages |-> messages, json |-> json, status |-> 0,
     supabase |-> FALSE, step |-> 0, pending |-> 0, threw |-> FALSE, calls |-> 0,
     part |-> [type |-> "none", toolName |-> "none", error |-> FALSE],
     finishReason |-> "none"]

\* A worker that serves no request.
NoRequest == [Received("object", "undefined") EXCEPT !.pc = "none"]

\* The worker that serves the request, and the arguments the model passes to
\* the tools that write: the label of a new node, the relationship of a new edge.
Caller == CHOOSE w \in Workers : TRUE
NewLabels == {"A"}
NewRelationships == {"x"}

\* One request arrives, with any body, on an empty store.
InitRequest ==
    /\ kg_nodes = {}
    /\ kg_edges = EmptyBag
    /\ next_node_id = 1
    /\ mode \in [Workers -> ModeValues]
    /\ \E j \in JsonValues, m \in MessageValues :
         /\ j # "object" => (m = "undefined" /\ mode[Caller] = "undefined")
         /\ \A w \in Workers \ {Caller} : mode[w] = "undefined"
         /\ request = [w \in Workers |-> IF w = Caller THEN Received(j, m) ELSE NoRequest]
    /\ exec = [w \in Workers |-> Idle]
    /\ probe = NoProbe
    /\ node_rows = {}
    /\ path_rows = {}
    /\ embeddings = [kg_nodes |-> <<>>, document_chunks |-> <<>>]
    /\ match_rows = <<>>
    /\ NoPage

Quiet == UNCHANGED <<kg_nodes, kg_edges, next_node_id, mode, probe, node_rows, path_rows,
                     embeddings, match_rows, get, message, graphData>>

\* POST from the request to the Response.
POST(w) ==
    /\ request[w].pc = "received"
    /\ LET r == POST_entry(request[w].json, request[w].messages, mode[w])
       IN  request' = [request EXCEPT ![w] =
                         [@ EXCEPT !.pc = IF r.status = 200 THEN "streaming" ELSE "failed",
                                   !.status = r.status, !.supabase = r.supabase]]
    /\ UNCHANGED exec
    /\ Quiet

\* A further step with step <= maxSteps.
mayContinue_inclusive(step, threw) == ~ threw /\ step <= maxSteps

\* streamText runs a further step when every tool call of the last step gave
\* a result and fewer than maxSteps steps were run.
mayContinue(step, threw) == ~ threw /\ step < maxSteps

\* A rejected execute rethrown to POST's catch (as an awaited generateText does).
onSettled_rethrow(p, toolName) ==
    IF p.settled = "rejected"
    THEN [pc |-> "failed", status |-> 500,
          part |-> [type |-> "none", toolName |-> "none", error |-> FALSE]]
    ELSE [pc |-> "streaming", status |-> 200,
          part |-> [type |-> "tool-result", toolName |-> toolName, error |-> p.error]]

\* What the stream of streamText does with a settled execute: the value is
\* written as the tool's result, a rejection is written as an error part; the
\* Response (200) was returned before and stays.
onSettled(p, toolName) ==
    [pc |-> "streaming", status |-> 200,
     part |-> [type |-> IF p.settled = "rejected" THEN "error" ELSE "tool-result",
               toolName |-> toolName, error |-> p.error]]

\* The stream is between two tool invocations.
MayStep(w) ==
    /\ request[w].pc = "streaming"
    /\ request[w].pending = 0
    /\ exec[w] = Idle

\* streamText: a step in which the model asks for n tool calls.
streamText_toolCalls(w, n) ==
    /\ MayStep(w)
    /\ mayContinue(request[w].step, request[w].threw)
    /\ request' = [request EXCEPT ![w] = [@ EXCEPT !.step = @ + 1, !.pending = n]]
    /\ UNCHANGED exec
    /\ Quiet

\* streamText: a step in which the model answers with text ("stop"), or the
\* call of the model fails ("error"); the stream ends.
streamText_finish(w, finishReason) ==
    /\ MayStep(w)
    /\ mayContinue(request[w].step, request[w].threw)
    /\ request' = [request EXCEPT ![w] =
                     [@ EXCEPT !.step = @ + 1, !.pc = "done", !.finishReason = finishReason]]
    /\ UNCHANGED exec
    /\ Quiet

\* streamText: no further step after a step whose tool calls did not all give
\* a result, or after step maxSteps; the stream ends on the step's finish
\* reason.
streamText_maxSteps(w) ==
    /\ MayStep(w)
    /\ ~ mayContinue(request[w].step, request[w].threw)
    /\ request' = [request EXCEPT ![w] = [@ EXCEPT !.pc = "done", !.finishReason = "tool-calls"]]
    /\ UNCHANGED exec
    /\ Quiet

\* The stream runs the next tool call of the step.
MayInvoke(w) ==
    /\ request[w].pc = "streaming"
    /\ request[w].pending > 0
    /\ exec[w] = Idle

\* rows of kg_edges present or about to be inserted
EdgeRoom ==
    BagCardinality(kg_edges)
        + Cardinality({ v \in Workers : exec[v].tool = "createEdge" /\ exec[v].pc # "ready" })
        < MaxCreated

\* A store call of a tool ends with an error: the calls that read only `data`
\* see no row, the others throw the error.
store_unavailable(w, tool) ==
    /\ \/ /\ Offered(w, tool)
          /\ \E outcome \in EmbeddingOutcomes :
               exec' = [exec EXCEPT ![w] =
                          [Ready(tool, CASE tool = "traverseGraph" -> "Node not found"
                                         [] tool = "createEdge" -> "One or both nodes not found"
                                         [] OTHER -> "store unavailable")
                             EXCEPT !.embedding =
                                 IF tool \in {"searchDocuments", "searchNodesSemanticaly"}
                                 THEN generateEmbedding(outcome) ELSE @]]
       \/ /\ exec[w].tool = tool /\ exec[w].pc = "targetNodes"
          /\ exec' = [exec EXCEPT ![w] = Ready(tool, "One or both nodes not found")]
       \/ /\ exec[w].tool = tool /\ exec[w].pc \in {"insert", "rpc"}
          /\ exec' = [exec EXCEPT ![w] = Ready(tool, "store unavailable")]
    /\ UNCHANGED <<kg_nodes, kg_edges, next_node_id>>
    /\ Frame

\* streamText: the promise of execute has settled; the tool's result, or the
\* error it threw, is the next part of the stream (part keeps the last one).
streamText_toolResult(w) ==
    /\ request[w].pc = "streaming"
    /\ exec[w].pc = "ready" /\ exec[w].tool # "none"
    /\ LET p == execute(exec[w].tool, exec[w].result)
           s == onSettled(p, exec[w].tool)
       IN  request' = [request EXCEPT ![w] =
                         [@ EXCEPT !.pending = @ - 1,
                                   !.calls = @ + 1,
                                   !.threw = @ \/ p.settled = "rejected",
                                   !.pc = s.pc, !.status = s.status, !.part = s.part]]
    /\ exec' = [exec EXCEPT ![w] = Idle]
    /\ Quiet

ToolNames ==
    {"searchDocuments", "traverseGraph", "createNode", "createEdge", "updateGraph",
     "searchNodesSemanticaly"}

NextRequest ==
    \/ \E w \in Workers : POST(w)
    \/ \E w \in Workers, n \in 1..MaxCalls : streamText_toolCalls(w, n)
    \/ \E w \in Workers, r \in {"stop", "error"} : streamText_finish(w, r)
    \/ \E w \in Workers : streamText_maxSteps(w)
    \/ \E w \in Workers : streamText_toolResult(w)
    \/ \E w \in Workers, l \in NewLabels : MayInvoke(w) /\ createNode(w, l)
    \/ \E w \in Workers, sl \in Labels, tl \in Labels, r \in NewRelationships :
         MayInvoke(w) /\ EdgeRoom /\ createEdge_sourceNodes(w, sl, tl, r)
    \/ \E w \in Workers : createEdge_targetNodes(w)
    \/ \E w \in Workers : createEdge_insert(w)
    \/ \E w \in Workers, l \in Labels : MayInvoke(w) /\ traverseGraph_nodes(w, l)
    \/ \E w \in Workers : traverseGraph_rpc(w)
    \/ \E w \in Workers : MayInvoke(w) /\ searchDocuments(w)
    \/ \E w \in Workers : MayInvoke(w) /\ searchNodesSemanticaly(w)
    \/ \E w \in Workers, op \in {"add", "refresh"}, id \in {None} \cup NodeIds :
         MayInvoke(w) /\ updateGraph(w, op, id)
    \/ \E w \in Workers, t \in ToolNames :
         (exec[w].pc = "ready" => MayInvoke(w)) /\ store_unavailable(w, t)
    \/ \E id \in NodeIds : deleteNode(id)

SpecRequest == InitRequest /\ [][NextRequest]_vars

\* The steps of the requests: the runtime resumes every pending promise.
RequestStep == NextRequest /\ (request' # request \/ exec' # exec)

SpecRequestFair == SpecRequest /\ WF_vars(RequestStep)

\* ------------------------------- search_nodes_semantic, search_chunks_semantic
\* An embedding is one of 2 * Unit + 1 directions, 1 .. 2 * Unit + 1, or NULL
\* (None); the cosine distance of two directions is the number of steps between
\* them, in units of 1 / Unit, so that it runs from 0 to 2 and the similarity
\* 1 - distance from 1 down to -1.  FLOAT values are integers in that unit.
Unit == 2            \* the integer that stands for 1.0
MaxRows == 3         \* rows of the table searched
MaxCount == 3        \* largest match_count

Directions == 1..(2 * Unit + 1)
Thresholds == (0 - Unit)..Unit
Counts == 0..MaxCount

cosine_distance(a, b) == IF a >= b THEN a - b ELSE b - a         \* a <=> b

similarity(embedding, query_embedding) == Unit - cosine_distance(embedding, query_embedding)

\* The WHERE clause with >= for >.
where_at_least(emb, query_embedding, match_threshold) ==
    { id \in DOMAIN emb :
        /\ emb[id] # None
        /\ similarity(emb[id], query_embedding) >= match_threshold }

\* WHERE embedding IS NOT NULL AND 1 - (embedding <=> query_embedding) > match_threshold
where(emb, query_embedding, match_threshold) ==
    { id \in DOMAIN emb :
        /\ emb[id] # None
        /\ similarity(emb[id], query_embedding) > match_threshold }

\* The sequences that hold each member of S once.
Orderings(S) ==
    { f \in [1..Cardinality(S) -> S] : \A i, j \in 1..Cardinality(S) : f[i] = f[j] => i = j }

\* The rows of S in any order.
unordered(emb, query_embedding, S) == Orderings(S)

\* ORDER BY embedding <=> query_embedding: the orders SQL may return the rows
\* of S in (rows at the same distance come in any order).
order_by_distance(emb, query_embedding, S) ==
    { f \in Orderings(S) :
        \A i, j \in 1..Cardinality(S) :
            i < j => cosine_distance(emb[f[i]], query_embedding)
                        <= cosine_distance(emb[f[j]], query_embedding) }

\* The last match_count rows instead of the first.
limit_last(rows, match_count) ==
    IF match_count >= Len(rows) THEN rows
    ELSE SubSeq(rows, Len(rows) - match_count + 1, Len(rows))

\* LIMIT match_count
limit(rows, match_count) ==
    IF match_count >= Len(rows) THEN rows ELSE SubSeq(rows, 1, match_count)

\* The SELECT shared by the two functions, on the embedding column emb of the
\* table: the possible results, each a sequence of rows [id, similarity].
select_similar(emb, query_embedding, match_threshold, match_count) ==
    { [i \in 1..Len(ids) |->
          [id |-> ids[i], similarity |-> similarity(emb[ids[i]], query_embedding)]] :
        ids \in { limit(f, match_count) :
                    f \in order_by_distance(emb, query_embedding,
                                            where(emb, query_embedding, match_threshold)) } }

search_nodes_semantic(query_embedding, match_threshold, match_count) ==
    select_similar(embeddings.kg_nodes, query_embedding, match_threshold, match_count)

search_chunks_semantic(query_embedding, match_threshold, match_count) ==
    select_similar(embeddings.document_chunks, query_embedding, match_threshold, match_count)

\* The embedding columns of at most MaxRows rows, ids 1, 2, ...
EmbeddingColumns ==
    UNION { [1..k -> {None} \cup Directions] : k \in 0..MaxRows }

\* The tables the functions are called on: rows of kg_nodes or rows of
\* document_chunks, each with an embedding or none.
InitSearch ==
    /\ \E col \in EmbeddingColumns, t \in {"kg_nodes", "document_chunks"} :
         /\ embeddings = [kg_nodes |-> IF t = "kg_nodes" THEN col ELSE <<>>,
                          document_chunks |-> IF t = "document_chunks" THEN col ELSE <<>>]
         /\ kg_nodes = { [id |-> i, label |-> "A"] : i \in DOMAIN embeddings.kg_nodes }
    /\ kg_edges = EmptyBag
    /\ next_node_id = MaxRows + 1
    /\ mode = [w \in Workers |-> "hybrid"]
    /\ exec = [w \in Workers |-> Idle]
    /\ request = [w \in Workers |-> Streaming]
    /\ probe = NoProbe
    /\ node_rows = {}
    /\ path_rows = {}
    /\ match_rows = <<>>
    /\ NoPage

SearchProbe(fn, query_embedding, match_threshold, match_count) ==
    [fn |-> fn, query_embedding |-> query_embedding, match_threshold |-> match_threshold,
     match_count |-> match_count]

CallSearchNodes(query_embedding, match_threshold, match_count) ==
    /\ probe.fn = "none"
    /\ probe' = SearchProbe("search_nodes_semantic", query_embedding, match_threshold, match_count)
    /\ match_rows' \in search_nodes_semantic(query_embedding, match_threshold, match_count)
    /\ UNCHANGED <<kg_nodes, kg_edges, next_node_id, mode, exec, node_rows, path_rows,
                   request, embeddings, get, message, graphData>>

CallSearchChunks(query_embedding, match_threshold, match_count) ==
    /\ probe.fn = "none"
    /\ probe' = SearchProbe("search_chunks_semantic", query_embedding, match_threshold, match_count)
    /\ match_rows' \in search_chunks_semantic(query_embedding, match_threshold, match_count)
    /\ UNCHANGED <<kg_nodes, kg_edges, next_node_id, mode, exec, node_rows, path_rows,
                   request, embeddings, get, message, graphData>>

\* value || fallback: a falsy value, 0 among them, gives way to the fallback.
or_default(value, fallback) == IF value = 0 THEN fallback ELSE value

\* 0.5 in units of 1 / Unit.  Similarities are whole units, so a row is above
\* 0.5 exactly when it is above the whole unit below it.
DefaultThreshold == Unit \div 2
DefaultLimit == 10

\* searchDocuments.execute called with threshold and limit: the rpc of
\* search_chunks_semantic with the embedding of the query.
CallSearchDocuments(query_embedding, threshold, lim) ==
    /\ probe.fn = "none"
    /\ probe' = SearchProbe("searchDocuments", query_embedding, threshold, lim)
    /\ match_rows' \in search_chunks_semantic(query_embedding,
                                              or_default(threshold, DefaultThreshold),
                                              or_default(lim, DefaultLimit))
    /\ UNCHANGED <<kg_nodes, kg_edges, next_node_id, mode, exec, node_rows, path_rows,
                   request, embeddings, get, message, graphData>>

NextSearch ==
    \/ \E q \in Directions, t \in Thresholds, c \in Counts : CallSearchDocuments(q, t, c)
    \/ \E q \in Directions, t \in Thresholds, c \in Counts : CallSearchNodes(q, t, c)
    \/ \E q \in Directions, t \in Thresholds, c \in Counts : CallSearchChunks(q, t, c)

SpecSearch == InitSearch /\ [][NextSearch]_vars

\* ------------------------------------------------- graph route and the page
MaxStored == 51      \* rows of kg_nodes in a store the snapshots are taken of

PageFrame == UNCHANGED <<kg_nodes, kg_edges, next_node_id, mode, probe, node_rows, path_rows,
                         request, embeddings, match_rows>>

\* GET: the select on kg_nodes; an error ends the handler in its catch.
GET_nodes ==
    /\ get.pc = "idle"
    /\ \E nodesError \in BOOLEAN :
         get' = IF nodesError
                THEN [pc |-> "done", nodes |-> {}, edges |-> {}, status |-> 500]
                ELSE [pc |-> "edges", nodes |-> node_ids(kg_nodes), edges |-> {}, status |-> 0]
    /\ UNCHANGED <<exec, message, graphData>>
    /\ PageFrame

\* GET: the select on kg_edges, a query of its own, and the response.
GET_edges ==
    /\ get.pc = "edges"
    /\ \E edgesError \in BOOLEAN :
         get' = IF edgesError
                THEN [pc |-> "done", nodes |-> {}, edges |-> {}, status |-> 500]
                ELSE [pc |-> "done", nodes |-> get.nodes, edges |-> edge_rows(kg_edges),
                      status |-> 200]
    /\ UNCHANGED <<exec, message, graphData>>
    /\ PageFrame

\* The page's effect: fetch('/api/graph'), res.json(), setGraphData(data).
useEffect_fetch ==
    /\ get.pc = "done"
    /\ graphData' = [keys |-> {"nodes", "edges"}, nodes |-> get.nodes, edges |-> get.edges]
    /\ get' = NoGet
    /\ UNCHANGED <<exec, message>>
    /\ PageFrame

\* updateGraph runs for the page's chat: find() keeps the first updateGraph
\* invocation of the message that has a result.
updateGraph_toolInvocation(operation, nodeId) ==
    /\ Offered(Caller, "updateGraph")
    /\ \E r \in updateGraph_execute(kg_nodes, kg_edges, operation, nodeId) :
         /\ exec' = [exec EXCEPT ![Caller] = Ready("updateGraph", r.outcome)]
         /\ message' = IF message.outcome = "ok" THEN message ELSE r
    /\ UNCHANGED <<get, graphData>>
    /\ PageFrame

\* useChat's onFinish: onGraphUpdate(graphData.result), which is the page's
\* setGraphData.
onFinish ==
    /\ message # NoMessage
    /\ graphData' = IF message.outcome = "ok"
                    THEN [keys |-> message.keys, nodes |-> message.nodes,
                          edges |-> message.edges]
                    ELSE graphData
    /\ message' = NoMessage
    /\ UNCHANGED <<exec, get>>
    /\ PageFrame

\* The page on a store that no request changes, smaller or larger than the
\* limit of the refresh: nodes 1..k, and edges between the first and the last.
InitSnapshot ==
    /\ \E k \in 0..MaxStored :
         /\ kg_nodes = { [id |-> i, label |-> "A"] : i \in 1..k }
         /\ next_node_id = k + 1
         /\ \E es \in SUBSET { e \in EdgeRows({1, k} \cap (1..k)) :
                                   e.relationship = "x" /\ e.source_id # e.target_id } :
              kg_edges = SetToBag(es)
    /\ mode = [w \in Workers |-> "graph"]
    /\ exec = [w \in Workers |-> Idle]
    /\ probe = NoProbe
    /\ node_rows = {}
    /\ path_rows = {}
    /\ NoChat
    /\ NoPage

NextSnapshot ==
    \/ GET_nodes
    \/ GET_edges
    \/ useEffect_fetch
    \/ \E op \in {"add", "refresh"}, id \in {None, 1} : updateGraph_toolInvocation(op, id)
    \/ onFinish

SpecSnapshot == InitSnapshot /\ [][NextSnapshot]_vars

\* GET /api/graph while other requests create and delete nodes and edges.
InitGraph ==
    /\ kg_nodes = {}
    /\ kg_edges = EmptyBag
    /\ next_node_id = 1
    /\ mode = [w \in Workers |-> "graph"]
    /\ exec = [w \in Workers |-> Idle]
    /\ probe = NoProbe
    /\ node_rows = {}
    /\ path_rows = {}
    /\ NoChat
    /\ NoPage

NextGraph ==
    \/ GET_nodes
    \/ GET_edges
    \/ useEffect_fetch
    \/ \E w \in Workers, l \in NewLabels : createNode(w, l)
    \/ \E w \in Workers, sl \in NewLabels, tl \in NewLabels, r \in NewRelationships :
         createEdge_sourceNodes(w, sl, tl, r)
    \/ \E w \in Workers : createEdge_targetNodes(w)
    \/ \E w \in Workers : createEdge_insert(w)
    \/ \E id \in NodeIds : deleteNode(id)

SpecGraph == InitGraph /\ [][NextGraph]_vars

\* ================================================================ properties
Ids == node_ids(kg_nodes)
Infinity == NumNodes + MaxDepth + 1

Adjacent(E, a, b) ==
    \E e \in edge_rows(E) : \/ (e.source_id = a /\ e.target_id = b)
                            \/ (e.source_id = b /\ e.target_id = a)

\* The nodes at most k hops from n, edges taken in both directions.
RECURSIVE Ball(_, _, _, _)
Ball(N, E, n, k) ==
    IF k <= 0 THEN {n} \cap node_ids(N)
    ELSE LET B == Ball(N, E, n, k - 1)
         IN  B \cup { m \in node_ids(N) : \E b \in B : Adjacent(E, b, m) }

HopDistance(N, E, n, m) ==
    LET K == { k \in 0..NumNodes : m \in Ball(N, E, n, k) }
    IN  IF K = {} THEN Infinity ELSE CHOOSE k \in K : \A j \in K : k <= j

\* The nodes at most k hops from n, edges taken from source to target only.
RECURSIVE DirectedBall(_, _, _, _)
DirectedBall(N, E, n, k) ==
    IF k <= 0 THEN {n} \cap node_ids(N)
    ELSE LET B == DirectedBall(N, E, n, k - 1)
         IN  B \cup { m \in node_ids(N) :
                        \E e \in edge_rows(E) : e.source_id \in B /\ e.target_id = m }

\* C1: for an existing start node, get_connected_nodes returns exactly one row
\* for each node whose undirected hop distance from the start is at most
\* max_depth, no other row, and each row's depth is that hop distance.
C1_ConnectedIsHopBall ==
    (probe.fn = "get_connected_nodes" /\ probe.start_id \in Ids) =>
        /\ \A m \in Ids :
             HopDistance(kg_nodes, kg_edges, probe.start_id, m) <= probe.max_depth
                => Cardinality({ r \in node_rows : r.node_id = m }) = 1
        /\ \A r \in node_rows :
             /\ r.node_id \in Ids
             /\ r.depth = HopDistance(kg_nodes, kg_edges, probe.start_id, r.node_id)
             /\ r.depth <= probe.max_depth

\* A call whose node_graph reaches a node other than the start by two paths of
\* different lengths, and returns the row of the shorter one.
C1_Witness ==
    /\ probe.fn = "get_connected_nodes"
    /\ probe.start_id \in Ids
    /\ \E r \in node_rows, g \in node_graph(kg_nodes, kg_edges, probe.start_id, probe.max_depth) :
         g.node_id = r.node_id /\ g.depth > r.depth /\ r.depth >= 1

\* C4: find_shortest_path returns no row when start_id is not a node, and when
\* end_id is not reachable from start_id in at most max_depth hops along edges
\* taken from source to target.
C4_NotFoundWithoutDirectedPath ==
    (/\ probe.fn = "find_shortest_path"
     /\ \/ probe.start_id \notin Ids
        \/ probe.end_id \notin DirectedBall(kg_nodes, kg_edges, probe.start_id, probe.max_depth))
        => path_rows = {}

\* A call from an existing start to an end whose only connection is an edge
\* end -> start, which returns no row.
C4_Witness ==
    /\ probe.fn = "find_shortest_path"
    /\ probe.start_id \in Ids /\ probe.end_id \in Ids
    /\ probe.max_depth >= 2
    /\ \E e \in edge_rows(kg_edges) :
         e.source_id = probe.end_id /\ e.target_id = probe.start_id
    /\ \A e \in edge_rows(kg_edges) : e.source_id # probe.start_id
    /\ path_rows = {}

\* Directed simple paths, as sequences of kg_edges rows.
EdgeSeqs(E, k) == UNION { [1..m -> edge_rows(E)] : m \in 0..k }

PathNodes(s, p) == [i \in 1..(Len(p) + 1) |-> IF i = 1 THEN s ELSE p[i - 1].target_id]

IsSimplePath(N, p, s, t) ==
    /\ s \in node_ids(N)
    /\ \A i \in 1..Len(p) : p[i].source_id = PathNodes(s, p)[i]
    /\ PathNodes(s, p)[Len(p) + 1] = t
    /\ \A i, j \in 1..(Len(p) + 1) : i # j => PathNodes(s, p)[i] # PathNodes(s, p)[j]

\* The directed simple paths from s to t of at most k edges.
SimplePaths(N, E, s, t, k) == { p \in EdgeSeqs(E, k) : IsSimplePath(N, p, s, t) }

RECURSIVE PathWeight(_)
PathWeight(p) == IF Len(p) = 0 THEN 0 ELSE p[1].weight + PathWeight(Tail(p))

\* C2: when several directed simple paths of at most max_depth edges lead from
\* start_id to end_id, find_shortest_path returns a path whose total weight is
\* at most the total weight of each of them.
C2_ReturnsLeastWeight ==
    probe.fn = "find_shortest_path" =>
        LET P == SimplePaths(kg_nodes, kg_edges, probe.start_id, probe.end_id, probe.max_depth)
        IN  Cardinality(P) >= 2 =>
              /\ path_rows # {}
              /\ \A r \in path_rows, p \in P : r.total_weight <= PathWeight(p)

\* C3: when a directed simple path of at most max_depth edges leads from
\* start_id to end_id, find_shortest_path returns a row.
C3_ExploresUpToMaxDepthEdges ==
    probe.fn = "find_shortest_path" =>
        (SimplePaths(kg_nodes, kg_edges, probe.start_id, probe.end_id, probe.max_depth) # {}
            => path_rows # {})

\* What find_shortest_path does explore: the paths of at most max_depth nodes
\* (array_length(path, 1) counts nodes), the start node's own path always
\* included.  Among those it returns one of least total weight.
ShortestAmongPathsBelowMaxDepth ==
    probe.fn = "find_shortest_path" =>
        LET k == IF probe.max_depth > 0 THEN probe.max_depth - 1 ELSE 0
            P == SimplePaths(kg_nodes, kg_edges, probe.start_id, probe.end_id, k)
        IN  /\ (P # {}) = (path_rows # {})
            /\ \A r \in path_rows :
                 /\ \A p \in P : r.total_weight <= PathWeight(p)
                 /\ \E p \in P : r.total_weight = PathWeight(p) /\ r.path = PathNodes(probe.start_id, p)

\* The reverse-direction duplicate of a kg_edges row.
ReverseOf(e) ==
    [source_id |-> e.target_id, target_id |-> e.source_id,
     relationship |-> e.relationship, weight |-> e.weight]

RowNodeIds(R) == { r.node_id : r \in R }

\* C5: inserting the reverse-direction duplicate (target -> source, same
\* relationship) of any existing edge leaves the set of nodes that
\* get_connected_nodes returns for the call's start node and max_depth unchanged.
C5_StableUnderReverseDuplicate ==
    probe.fn = "get_connected_nodes" =>
        \A e \in edge_rows(kg_edges) :
            \A R \in get_connected_nodes(kg_nodes,
                                         insert_kg_edges(kg_nodes, kg_edges, ReverseOf(e)).kg_edges,
                                         probe.start_id, probe.max_depth) :
                RowNodeIds(R) = RowNodeIds(node_rows)

\* A call that reaches a node against the direction of an edge whose reverse is
\* not in kg_edges.
C5_Witness ==
    /\ probe.fn = "get_connected_nodes"
    /\ \E e \in edge_rows(kg_edges) :
         /\ e.target_id = probe.start_id /\ e.source_id # probe.start_id
         /\ \A f \in edge_rows(kg_edges) : ~ SameTriple(f, ReverseOf(e))
         /\ e.source_id \in RowNodeIds(node_rows)
         /\ \A f \in edge_rows(kg_edges) : f.source_id # probe.start_id

\* C6: every row of kg_edges has its source_id and its target_id among the ids
\* of kg_nodes, in every state reached by createNode, createEdge and deleteNode
\* steps in any interleaving.
C6_EdgesReferenceNodes ==
    \A e \in DOMAIN kg_edges : e.source_id \in Ids /\ e.target_id \in Ids

\* A createEdge whose endpoint was deleted between its lookups and its insert,
\* in a store where a deleted node is gone and an edge remains.
C6_Witness ==
    /\ \E w \in Workers :
         exec[w].tool = "createEdge" /\ exec[w].result = "foreign_key_violation"
    /\ kg_edges # EmptyBag
    /\ Cardinality(kg_nodes) < next_node_id - 1

\* The step in which worker w's createEdge runs its INSERT.
InsertStep(w) == exec[w].tool = "createEdge" /\ exec[w].pc = "insert" /\ exec'[w] # exec[w]

InsertedRow(w) ==
    [source_id |-> exec[w].sourceNodes, target_id |-> exec[w].targetNodes,
     relationship |-> exec[w].relationship, weight |-> 1]

TripleExists(row) == \E f \in DOMAIN kg_edges : SameTriple(f, row)

C7_AtMostOnePerTriple ==
    \A e \in DOMAIN kg_edges :
        /\ kg_edges[e] = 1
        /\ \A f \in DOMAIN kg_edges : SameTriple(e, f) => e = f

C7_InsertStep ==
    \A w \in Workers :
        InsertStep(w) =>
            /\ TripleExists(InsertedRow(w)) =>
                 exec'[w].result = "unique_violation" /\ kg_edges' = kg_edges
            /\ (/\ ~ TripleExists(InsertedRow(w))
                /\ exec[w].sourceNodes \in Ids /\ exec[w].targetNodes \in Ids) =>
                 /\ exec'[w].result = "ok"
                 /\ kg_edges' = kg_edges (+) SetToBag({InsertedRow(w)})

\* C7: kg_edges never holds two rows with one (source_id, target_id,
\* relationship) triple; a createEdge insert of a triple that exists ends with the
\* unique violation and leaves kg_edges unchanged; an insert of a triple that
\* does not exist between existing nodes (whatever other relationships join the
\* pair) is accepted.
C7_DuplicateRejected == [] C7_AtMostOnePerTriple /\ [][C7_InsertStep]_vars

\* A createEdge ended with the unique violation, and one pair of nodes joined
\* by two relationships.
C7_Witness ==
    /\ \E w \in Workers :
         exec[w].tool = "createEdge" /\ exec[w].result = "unique_violation"
    /\ \E e, f \in DOMAIN kg_edges :
         e.source_id = f.source_id /\ e.target_id = f.target_id
            /\ e.relationship # f.relationship

\* The results by which createEdge reports a missing endpoint.
ReferenceError == {"One or both nodes not found", "foreign_key_violation"}

C8_Step ==
    \A w \in Workers :
        /\ (/\ exec[w].tool = "createEdge" /\ exec[w].pc = "targetNodes" /\ exec'[w] # exec[w]
            /\ \/ exec[w].sourceNodes = None
               \/ \A n \in kg_nodes : n.label # exec[w].targetLabel) =>
               /\ exec'[w].pc = "ready" /\ exec'[w].result \in ReferenceError
               /\ kg_edges' = kg_edges /\ kg_nodes' = kg_nodes
        /\ (/\ InsertStep(w)
            /\ (exec[w].sourceNodes \notin Ids \/ exec[w].targetNodes \notin Ids)) =>
               /\ exec'[w].pc = "ready" /\ exec'[w].result \in ReferenceError
               /\ kg_edges' = kg_edges /\ kg_nodes' = kg_nodes

\* C8: a createEdge whose source or target does not exist (no node has the
\* label when it is looked up, or the node found is gone when the row is
\* inserted) ends with a reference error and leaves kg_edges and kg_nodes
\* unchanged.
C8_MissingEndpointRejected == [][C8_Step]_vars

\* One createEdge ended on a label no node has, another on a node deleted
\* before the insert.
C8_Witness ==
    /\ kg_nodes # {}
    /\ \E w \in Workers :
         exec[w].tool = "createEdge" /\ exec[w].result = "One or both nodes not found"
    /\ \E w \in Workers :
         exec[w].tool = "createEdge" /\ exec[w].result = "foreign_key_violation"

Completed(w) == exec[w].tool = "createEdge" /\ exec[w].pc = "ready"

Succeeded == { w \in Workers : Completed(w) /\ exec[w].result = "ok" }

C9_Completed ==
    (\A w \in Workers : Completed(w)) =>
        /\ \A e \in DOMAIN kg_edges : kg_edges[e] = 1
        /\ Cardinality(DOMAIN kg_edges) = Cardinality(Succeeded)
        /\ \A w \in Workers :
             exec[w].result = "unique_violation" =>
                \E v \in Workers \ {w} : exec[v].result = "ok"

C9_InsertStep ==
    \A w \in Workers :
        InsertStep(w) =>
            /\ exec'[w].result = (IF TripleExists(InsertedRow(w)) THEN "unique_violation" ELSE "ok")
            /\ \A e \in DOMAIN kg_edges : e \in DOMAIN kg_edges' /\ kg_edges'[e] = kg_edges[e]

\* C9: requests that each run createEdge once, concurrently, on a store without
\* edges: the insert of a triple succeeds when the triple is not yet in
\* kg_edges and ends with the unique violation when it is, and it never changes
\* a row that is there; so once all have completed every row of kg_edges is
\* there once, inserted by exactly one request, and each request that ended with
\* the unique violation lost to one that succeeded.
C9_ExactlyOneSucceeds == [] C9_Completed /\ [][C9_InsertStep]_vars

\* Both requests completed, one with the row inserted and one with the unique
\* violation.
C9_Witness ==
    /\ \A w \in Workers : Completed(w)
    /\ \E w, v \in Workers :
         exec[w].result = "ok" /\ exec[v].result = "unique_violation"
    /\ BagCardinality(kg_edges) = 1

\* The operations the specification gives each mode.
ModeOperations(m) ==
    CASE m = "vector" -> {"searchDocuments"}
      [] m = "graph"  -> {"traverseGraph", "createNode", "createEdge", "updateGraph"}
      [] m = "hybrid" -> {"searchDocuments", "traverseGraph", "createNode", "createEdge",
                          "updateGraph", "searchNodesSemanticaly"}

\* C10: the tools offered for a mode are exactly the mode's operations, and
\* the tool a worker runs or ran last is one of its request's mode.
C10_ToolsGatedByMode ==
    /\ \A m \in Modes : tools(m) = ModeOperations(m)
    /\ \A w \in Workers : exec[w].tool \in {"none"} \cup ModeOperations(mode[w])

\* A vector request that ran searchDocuments next to a graph request that
\* created a node.
C10_Witness ==
    \E w, v \in Workers :
        /\ mode[w] = "vector" /\ exec[w].tool = "searchDocuments"
        /\ mode[v] = "graph" /\ exec[v].tool = "createNode"

\* C11: a request in vector mode never changes kg_nodes or kg_edges in any of
\* its steps, and no part of its stream comes from a tool other than
\* searchDocuments (no createNode entry in its provenance).
C11_NoGraphToolPart ==
    \A w \in Workers :
        mode[w] = "vector" =>
            /\ request[w].part.toolName \in {"none", "searchDocuments"}
            /\ exec[w].tool \in {"none", "searchDocuments"}

C11_Step ==
    \A w \in Workers :
        (mode[w] = "vector" /\ (request'[w] # request[w] \/ exec'[w] # exec[w]))
            => (kg_nodes' = kg_nodes /\ kg_edges' = kg_edges)

C11_VectorNeverMutates == [] C11_NoGraphToolPart /\ [][C11_Step]_vars

\* a vector request that ran its tool at every step of the budget
C11_Witness ==
    \E w \in Workers :
        /\ mode[w] = "vector" /\ request[w].pc = "done"
        /\ request[w].step = maxSteps /\ request[w].calls >= maxSteps

\* C12: POST accepts a body (an object) only if its mode is vector, graph or
\* hybrid and its messages are a non-empty array, and answers every other body
\* with status 400.
C12_AcceptedOnlyIfValid ==
    \A w \in Workers :
        (request[w].json = "object" /\ request[w].pc \notin {"none", "received"}) =>
            IF mode[w] \in Modes /\ request[w].messages = "[m]"
            THEN request[w].status = 200
            ELSE request[w].status = 400

\* C13: a request answered with 400 made no store client, ran no step and no
\* tool, wrote nothing to a stream and left the tables as they were.
C13_RejectedHasNoEffect ==
    \A w \in Workers :
        request[w].status = 400 =>
            /\ ~ request[w].supabase
            /\ request[w].step = 0 /\ request[w].calls = 0
            /\ request[w].part.type = "none"
            /\ exec[w] = Idle
            /\ kg_nodes = {} /\ kg_edges = EmptyBag /\ next_node_id = 1

C13_Witness ==
    \E w \in Workers :
        request[w].status = 400 /\ request[w].messages = "[m]" /\ mode[w] = "other"

\* C14: every tool invocation that ends in a failure settles as a returned
\* error object that carries the tool's name; none rejects.
C14_FailuresReturnedTagged ==
    \A w \in Workers :
        (exec[w].pc = "ready" /\ exec[w].tool # "none" /\ exec[w].result # "ok") =>
            LET p == execute(exec[w].tool, exec[w].result)
            IN  p.settled = "fulfilled" /\ p.error /\ p.toolName = exec[w].tool

\* C15: a request that passes validation is answered with 200 and never
\* fails, its stream ends (done), and every tool invocation that settles is
\* written to the stream: a failure as an error (an error part or a result
\* that carries the error), a success as the tool's result.
C15_NeverFailed ==
    \A w \in Workers :
        (/\ request[w].json = "object" /\ mode[w] \in Modes /\ isArray(request[w].messages)
         /\ request[w].pc \notin {"none", "received"})
            => (request[w].status = 200 /\ request[w].pc \in {"streaming", "done"})

C15_Step ==
    \A w \in Workers :
        (exec[w].pc = "ready" /\ exec[w].tool # "none" /\ exec'[w] = Idle) =>
            /\ request'[w].part.toolName = exec[w].tool
            /\ request'[w].part.error = (exec[w].result # "ok")
            /\ (exec[w].result = "ok") => (request'[w].part.type = "tool-result")

C16_AtMostMaxStepsInvocations ==
    \A w \in Workers : request[w].calls <= maxSteps

\* C16: a request runs at most maxSteps steps of the model; after step
\* maxSteps no further step and no further tool call is started, the request
\* is done with status 200, and a stream that ended on the budget carries the
\* finish reason tool-calls.
C16_WithinBudget ==
    \A w \in Workers :
        /\ request[w].step <= maxSteps
        /\ (request[w].pc = "done" /\ request[w].step = maxSteps) => request[w].status = 200

C16_Step ==
    \A w \in Workers :
        (/\ request[w].pc = "streaming" /\ request[w].step = maxSteps
         /\ request[w].pending = 0 /\ exec[w] = Idle
         /\ (request'[w] # request[w] \/ exec'[w] # exec[w]))
            => /\ exec'[w] = Idle
               /\ request'[w] = [request[w] EXCEPT !.pc = "done", !.finishReason = "tool-calls"]

C16_StepBudget == [] C16_WithinBudget /\ [][C16_Step]_vars

\* a stream that ended on the budget after more than maxSteps invocations
C16_Witness ==
    \E w \in Workers :
        /\ request[w].pc = "done" /\ request[w].step = maxSteps
        /\ request[w].finishReason = "tool-calls" /\ ~ request[w].threw
        /\ request[w].calls > maxSteps

\* C20: generateEmbedding never rejects: a search tool never ends with the
\* error of a missing embedding, and the query_embedding it passes to the rpc,
\* real or mock, has the dimension of the embedding columns.
C20_EmbeddingNeverFails ==
    \A w \in Workers :
        (exec[w].pc = "ready" /\ exec[w].tool \in {"searchDocuments", "searchNodesSemanticaly"}) =>
            /\ exec[w].result \notin {"embedding failed", "different vector dimensions"}
            /\ exec[w].embedding.settled = "fulfilled"
            /\ exec[w].embedding.dim = VectorDim

\* each of the two tools returned the rpc's rows for a mock embedding
C20_Witness ==
    \E w \in Workers :
        /\ exec[w].pc = "ready" /\ exec[w].tool = "searchNodesSemanticaly"
        /\ exec[w].result = "ok" /\ exec[w].embedding.mock
        /\ request[w].part.toolName = "searchDocuments" /\ ~ request[w].part.error

\* ---------------------------------------------------------- similarity search
Searched == probe.fn \in {"search_nodes_semantic", "search_chunks_semantic"}

\* the embedding column of the table the last search read
Column ==
    IF probe.fn = "search_nodes_semantic" THEN embeddings.kg_nodes ELSE embeddings.document_chunks

\* 1 - (embedding <=> query_embedding) of row id, from the two directions
SimilarityOf(id) ==
    LET a == Column[id]
        b == probe.query_embedding
    IN  Unit - (IF a >= b THEN a - b ELSE b - a)

Qualifying ==
    { id \in DOMAIN Column : Column[id] # None /\ SimilarityOf(id) > probe.match_threshold }

Returned == { match_rows[i].id : i \in 1..Len(match_rows) }

\* C17: a similarity search returns no row whose embedding is NULL and no row
\* whose similarity is less than or equal to match_threshold.
C17_AboveThresholdNotNull ==
    Searched =>
        \A i \in 1..Len(match_rows) :
            /\ match_rows[i].id \in DOMAIN Column
            /\ Column[match_rows[i].id] # None
            /\ match_rows[i].similarity = SimilarityOf(match_rows[i].id)
            /\ match_rows[i].similarity > probe.match_threshold

\* a search that returned a row and left out a row whose embedding is NULL and
\* a row whose similarity equals the threshold
C17_Witness ==
    /\ Searched
    /\ Len(match_rows) >= 1
    /\ \E id \in DOMAIN Column : Column[id] = None
    /\ \E id \in DOMAIN Column :
         Column[id] # None /\ SimilarityOf(id) = probe.match_threshold /\ id \notin Returned

Min(a, b) == IF a <= b THEN a ELSE b

\* C19: a search returns min(match_count, number of qualifying rows) rows, each
\* a different qualifying row, and no qualifying row left out has a greater
\* similarity than a row returned.
C19_TruncatesAfterOrdering ==
    Searched =>
        /\ Len(match_rows) = Min(probe.match_count, Cardinality(Qualifying))
        /\ Cardinality(Returned) = Len(match_rows)
        /\ Returned \subseteq Qualifying
        /\ \A out \in Qualifying \ Returned, in \in Returned :
             SimilarityOf(out) <= SimilarityOf(in)

\* a search cut by match_count that left out a row of less similarity
C19_Witness ==
    /\ Searched
    /\ probe.match_count >= 1
    /\ Len(match_rows) = probe.match_count
    /\ \E out \in Qualifying \ Returned, in \in Returned : SimilarityOf(out) < SimilarityOf(in)

\* C21: a search tool that ran with the mock embedding does not end as an
\* ordinary success: its result is flagged as degraded or failed.
C21_FallbackFlagged ==
    \A w \in Workers :
        (/\ exec[w].pc = "ready"
         /\ exec[w].tool \in {"searchDocuments", "searchNodesSemanticaly"}
         /\ exec[w].embedding.mock)
            => exec[w].result # "ok"

\* C22: the node a label lookup of createEdge returned is, among the nodes
\* that carry its label, the one created first.
C22_LookupReturnsFirstCreated ==
    \A w \in Workers :
        (exec[w].tool = "createEdge" /\ exec[w].pc \in {"targetNodes", "insert"}
           /\ exec[w].sourceNodes # None) =>
            \A n \in kg_nodes, m \in kg_nodes :
                (n.id = exec[w].sourceNodes /\ m.label = n.label) => n.id <= m.id

\* C23: get_connected_nodes called with an id that is not in kg_nodes does
\* not answer with an empty result.
C23_MissingStartNotEmpty ==
    (probe.fn = "get_connected_nodes" /\ probe.start_id \notin Ids) => node_rows # {}

\* C25: in graph or hybrid mode, the first tool a request invokes is not
\* createNode or createEdge.
C25_ReadBeforeWrite ==
    \A w \in Workers :
        (mode[w] \in {"graph", "hybrid"} /\ request[w].pc = "streaming"
           /\ request[w].calls = 0)
            => exec[w].tool \notin {"createNode", "createEdge"}

\* C29: a step in which updateGraph runs, for 'add' or 'refresh', with or
\* without nodeId, ending in a result or in an error, leaves kg_nodes and
\* kg_edges as they were.
C29_Step ==
    \A w \in Workers :
        (exec'[w] # exec[w] /\ exec'[w].tool = "updateGraph")
            => (kg_nodes' = kg_nodes /\ kg_edges' = kg_edges)

C29_UpdateGraphReadOnly == [][C29_Step]_vars

\* updateGraph failed on a store that holds an edge
C29_Witness ==
    \E w \in Workers :
        /\ exec[w].tool = "updateGraph" /\ exec[w].result = "rpc error"
        /\ kg_edges # EmptyBag

\* C24: a graph snapshot, the response of GET /api/graph or the result of an
\* updateGraph refresh, holds at most 50 nodes.
C24_SnapshotCapped ==
    /\ get.pc = "done" => Cardinality(get.nodes) <= RefreshLimit
    /\ "nodes" \in message.keys => Cardinality(message.nodes) <= RefreshLimit

\* C27: every edge of a GET /api/graph response has its source and its target
\* among the nodes of the same response.
C27_ResponseEdgesClosed ==
    get.pc = "done" =>
        \A e \in get.edges : e.source_id \in get.nodes /\ e.target_id \in get.nodes

\* C28: every edge of an updateGraph refresh result without nodeId has both
\* endpoints among the nodes of the same result.
C28_RefreshEdgesClosed ==
    "nodes" \in message.keys =>
        \A e \in message.edges : e.source_id \in message.nodes /\ e.target_id \in message.nodes

\* C30: the graphData the page holds always has nodes, so data.nodes.length
\* can be read.
C30_GraphDataHasNodes == "nodes" \in graphData.keys

\* C26: searchDocuments returns exactly the rows above the threshold it was
\* called with, at most as many as the limit it was called with, for every
\* threshold and limit, 0 included.
C26_AppliesThresholdAndLimit ==
    probe.fn = "searchDocuments" =>
        /\ Returned \subseteq Qualifying
        /\ Len(match_rows) = Min(probe.match_count, Cardinality(Qualifying))
====
